---- MODULE Spec2Model ----
(***************************************************************************)
(* Model of the block call tracer (eth/tracers/native, blockCallsTracer)   *)
(* and of the explorer export hook (internal/explorer/db_export.go).       *)
(*                                                                         *)
(* Spec        : the tracer driven by the engine's depth-first callbacks,  *)
(*               with Stop arriving at any moment.                         *)
(* SpecExport  : blockImportHook applied to bounded trace inputs.          *)
(* SpecAny     : the tracer's callbacks made in any order.                 *)
(* SpecRace    : Stop interleaved statement by statement with the driving  *)
(*               goroutine's OnBlockStart and OnTxStart.                   *)
(***************************************************************************)
EXTENDS Integers, Sequences, FiniteSets, TLC

(***************************************************************************)
(* Bounds of the model.                                                    *)
(***************************************************************************)
\* deepest scope the engine enters (the top call is at depth 0)
MaxDepth == 2
\* scopes the engine enters in one block
MaxScopes == 3
\* transactions per block
MaxTxs == 2
\* logs the engine emits in one block
MaxLogs == 1
\* frames in the trace handed to blockImportHook
MaxNodes == 3

(***************************************************************************)
(* Optional values (Go pointers): <<>> is nil, <<x>> points to x.          *)
(***************************************************************************)
None == <<>>
Some(x) == <<x>>

NoErr == "nil"
ErrValidation == "nonce too low"
ErrReverted == "execution reverted"
ErrTimeout == "execution timeout"

ZeroAddress == 0

(***************************************************************************)
(* callFrame: the node of a call tree.  The zero value is what             *)
(* make([]callFrame, 1) holds.  Input carries the identity of the engine   *)
(* scope the frame was entered for (the engine passes a distinct input to  *)
(* every scope of a transaction), Output and GasUsed the identity of the   *)
(* scope whose exit filled them.                                           *)
(***************************************************************************)
ZeroFrame ==
    [Type |-> "STOP", From |-> ZeroAddress, To |-> None, Input |-> 0, Gas |-> 0,
     GasUsed |-> 0, Value |-> None, Output |-> 0, Error |-> "", Calls |-> <<>>,
     Logs |-> <<>>]

VARIABLES
    \* blockCallsTracer
    callstacks, callstack, config, gasLimit, depth, interrupt, reason,
    \* a callback indexed a slice out of range (Go panics)
    panicked,
    \* the engine driving the callbacks
    phase, open, nscopes, entered, nlogs, ntx,
    \* history: the last callback with its arguments, whether Stop was called
    \* since the block's OnBlockStart and with which error, what the last
    \* GetResult returned
    last, stopped, result,
    \* blockImportHook: the trees the trace bytes were encoded from, the bytes,
    \* what json.Unmarshal made of them, the Exec calls made on the store in
    \* order, the log lines, and where the hook ended ("idle" before the call,
    \* then "returned" or "panicked")
    trees, traceData, decoded, attempts, logged, exportState,
    \* blockImportHook again: whether it called json.Unmarshal, and how many
    \* times navigateCallFrame was entered
    unmarshalled, visited,
    \* history: the transactions of the block, by number, whose OnTxEnd carried
    \* no error
    ended,
    \* callbacks made so far when they come in any order (SpecAny)
    ncalls,
    \* the statement the driving goroutine and the stopping goroutine are at
    \* when callbacks and Stop interleave statement by statement (SpecRace)
    pcCallback, pcStop

tracerVars == <<callstacks, callstack, config, gasLimit, depth, interrupt, reason, panicked>>
engineVars == <<phase, open, nscopes, entered, nlogs, ntx>>
historyVars == <<last, stopped, result, ended>>
exportVars == <<trees, traceData, decoded, attempts, logged, exportState, unmarshalled, visited>>
anyVars == <<ncalls>>
raceVars == <<pcCallback, pcStop>>
vars == <<tracerVars, engineVars, historyVars, exportVars, anyVars, raceVars>>

(***************************************************************************)
(* Helpers of the tracer.                                                  *)
(***************************************************************************)
Top(s) == s[Len(s)]
Front(s) == SubSeq(s, 1, Len(s) - 1)

\* callFrame.processOutput: attaches the output and the error of an exit.
processOutput(f, output, err, reverted) ==
    [f EXCEPT !.Output = output, !.Error = IF err # NoErr THEN err ELSE ""]

\* clearFailedLogs: drops the logs of a failed frame and of all its descendants.
RECURSIVE clearFailedLogs(_, _)
clearFailedLogs(cf, parentFailed) ==
    LET failed == cf.Error # "" \/ parentFailed
    IN  [cf EXCEPT !.Logs = IF failed THEN <<>> ELSE @,
                   !.Calls = [i \in 1..Len(cf.Calls) |-> clearFailedLogs(cf.Calls[i], failed)]]

(***************************************************************************)
(* The callbacks of blockCallsTracer.  Each is the whole handler; slices   *)
(* are 1-based here, so callstack[0] of the source is callstack[1].        *)
(***************************************************************************)
\* an OnBlockStart that keeps the trees of the block before
OnBlockStartKeepsTrees ==
    /\ interrupt' = FALSE
    /\ reason' = NoErr
    /\ UNCHANGED <<callstacks, callstack, config, gasLimit, depth, panicked>>

OnBlockStart ==
    /\ callstacks' = <<>>
    /\ interrupt' = FALSE
    /\ reason' = NoErr
    /\ UNCHANGED <<callstack, config, gasLimit, depth, panicked>>

\* the frame OnEnter builds from its arguments
NewCall(d, typ, from, to, input, gas, value) ==
    [ZeroFrame EXCEPT !.Type = typ, !.From = from, !.To = Some(to), !.Input = input,
                      !.Gas = IF d = 0 THEN gasLimit ELSE gas, !.Value = value]

\* an OnEnter without the top-call-only check
EnterSkippedOnlyOnInterrupt(d) == interrupt

\* whether OnEnter returns before capturing the frame
EnterSkipped(d) == (config.OnlyTopCall /\ d > 0) \/ interrupt

OnEnter(d, typ, from, to, input, gas, value) ==
    /\ depth' = d
    /\ callstack' = IF EnterSkipped(d) THEN callstack
                    ELSE Append(callstack, NewCall(d, typ, from, to, input, gas, value))
    /\ UNCHANGED <<callstacks, config, gasLimit, interrupt, reason, panicked>>

captureEnd(stack, output, gasUsed, err, reverted) ==
    IF Len(stack) # 1 THEN stack
    ELSE [stack EXCEPT ![1] = processOutput(@, output, err, reverted)]

\* a pop-and-nest that puts the call in front of its older siblings
PopCallPrepends(stack, output, gasUsed, err, reverted) ==
    LET size == Len(stack)
        call == processOutput([stack[size] EXCEPT !.GasUsed = gasUsed], output, err, reverted)
        rest == SubSeq(stack, 1, size - 1)
    IN  [rest EXCEPT ![size - 1].Calls = <<call>> \o @]

\* the pop-and-nest of OnExit, on a stack of at least two frames
PopCall(stack, output, gasUsed, err, reverted) ==
    LET size == Len(stack)
        call == processOutput([stack[size] EXCEPT !.GasUsed = gasUsed], output, err, reverted)
        rest == Front(stack)
    IN  [rest EXCEPT ![size - 1].Calls = Append(@, call)]

OnExit(d, output, gasUsed, err, reverted) ==
    /\ depth' = IF d = 0 THEN depth ELSE d - 1
    /\ callstack' = IF d = 0 THEN captureEnd(callstack, output, gasUsed, err, reverted)
                    ELSE IF config.OnlyTopCall THEN callstack
                    ELSE IF Len(callstack) <= 1 THEN callstack
                    ELSE PopCall(callstack, output, gasUsed, err, reverted)
    /\ UNCHANGED <<callstacks, config, gasLimit, interrupt, reason, panicked>>

\* the stack make([]callFrame, 1) returns
FreshStack == <<ZeroFrame>>

OnTxStart(txGas) ==
    /\ callstack' = FreshStack
    /\ gasLimit' = txGas
    /\ depth' = 0
    /\ interrupt' = FALSE
    /\ reason' = NoErr
    /\ UNCHANGED <<callstacks, config, panicked>>

\* the entry OnTxEnd appends to callstacks
FinishedStack(stack, receiptGasUsed) ==
    LET s1 == [stack EXCEPT ![1].GasUsed = receiptGasUsed]
    IN  IF config.WithLog THEN [s1 EXCEPT ![1] = clearFailedLogs(@, FALSE)] ELSE s1

\* whether OnTxEnd returns before touching the stack
TxEndSkipped(err) == err # NoErr

OnTxEnd(receiptGasUsed, err) ==
    IF TxEndSkipped(err) THEN UNCHANGED tracerVars
    ELSE IF Len(callstack) = 0
    THEN /\ panicked' = TRUE   \* t.callstack[0] on a nil slice
         /\ UNCHANGED <<callstacks, callstack, config, gasLimit, depth, interrupt, reason>>
    ELSE /\ callstacks' = Append(callstacks, FinishedStack(callstack, receiptGasUsed))
         /\ callstack' = <<>>
         /\ UNCHANGED <<config, gasLimit, depth, interrupt, reason, panicked>>

\* whether OnLog returns before capturing the log
LogSkipped == ~config.WithLog \/ (config.OnlyTopCall /\ depth > 0) \/ interrupt

\* an attachment that numbers the log by the logs of the frame, not its calls
AttachLogCountsLogs(stack, log) ==
    LET n == Len(stack)
        l == [Address |-> log.Address, Topics |-> log.Topics, Data |-> log.Data,
              Position |-> Len(stack[n].Logs)]
    IN  [stack EXCEPT ![n].Logs = Append(@, l)]

\* the stack with the log attached to its top frame
AttachLog(stack, log) ==
    LET n == Len(stack)
        l == [Address |-> log.Address, Topics |-> log.Topics, Data |-> log.Data,
              Position |-> Len(stack[n].Calls)]
    IN  [stack EXCEPT ![n].Logs = Append(@, l)]

OnLog(log) ==
    IF LogSkipped THEN UNCHANGED tracerVars
    ELSE IF Len(callstack) = 0
    THEN /\ panicked' = TRUE   \* t.callstack[len(t.callstack)-1] on an empty slice
         /\ UNCHANGED <<callstacks, callstack, config, gasLimit, depth, interrupt, reason>>
    ELSE /\ callstack' = AttachLog(callstack, log)
         /\ UNCHANGED <<callstacks, config, gasLimit, depth, interrupt, reason, panicked>>

Stop(err) ==
    /\ reason' = err
    /\ interrupt' = TRUE
    /\ UNCHANGED <<callstacks, callstack, config, gasLimit, depth, panicked>>


(***************************************************************************)
(* The trace bytes.  A JSON object is a function from its keys to values;  *)
(* a key left out by omitempty is not in its domain.  Addresses and big    *)
(* integers are written as hex strings.                                    *)
(***************************************************************************)
EncodeAddress(a) == [addr |-> a]
DecodeAddress(j) == j.addr
EncodeBig(v) == [hex |-> v]
DecodeBig(j) == j.hex

\* callFrame.TypeString: the name a frame's opcode is written with
TypeString(op) ==
    CASE op = "CALL" -> "Call"
      [] op = "STATICCALL" -> "StaticCall"
      [] op = "DELEGATECALL" -> "DelegateCall"
      [] op = "CREATE" -> "Create"
      [] OTHER -> "Stop"

\* the keys of callFrame's JSON form that omitempty leaves out
OmittedKeys(f) ==
    (IF f.To = None THEN {"to"} ELSE {}) \cup
    (IF f.Output = 0 THEN {"output"} ELSE {}) \cup
    (IF f.Error = "" THEN {"error"} ELSE {}) \cup
    (IF f.Calls = <<>> THEN {"calls"} ELSE {}) \cup
    (IF f.Logs = <<>> THEN {"logs"} ELSE {}) \cup
    (IF f.Value = None THEN {"value"} ELSE {})

FrameKeys ==
    {"from", "gas", "gasUsed", "to", "input", "output", "error", "calls", "logs",
     "value", "type"}

RECURSIVE EncodeFrame(_)
EncodeFrame(f) ==
    [k \in FrameKeys \ OmittedKeys(f) |->
        CASE k = "from" -> EncodeAddress(f.From)
          [] k = "gas" -> EncodeBig(f.Gas)
          [] k = "gasUsed" -> EncodeBig(f.GasUsed)
          [] k = "to" -> EncodeAddress(f.To[1])
          [] k = "input" -> EncodeBig(f.Input)
          [] k = "output" -> EncodeBig(f.Output)
          [] k = "error" -> f.Error
          [] k = "calls" -> [i \in 1..Len(f.Calls) |-> EncodeFrame(f.Calls[i])]
          [] k = "logs" -> f.Logs
          [] k = "value" -> EncodeBig(f.Value[1])
          [] k = "type" -> TypeString(f.Type)]

\* json.Marshal(t.callstacks)
EncodeTrace(T) ==
    [kind |-> "json",
     doc |-> [i \in 1..Len(T) |-> [j \in 1..Len(T[i]) |-> EncodeFrame(T[i][j])]]]

EmptyBytes == [kind |-> "empty", doc |-> <<>>]
InvalidBytes == [kind |-> "invalid", doc |-> <<>>]

\* a Value declared hexutil.Big instead of *hexutil.Big: absent reads as zero
DecodeValueNotPointer(o) ==
    IF "value" \in DOMAIN o THEN Some(DecodeBig(o["value"])) ELSE Some(0)

\* callFrame0.Value, a pointer: nil when the key is absent
DecodeValue(o) ==
    IF "value" \in DOMAIN o THEN Some(DecodeBig(o["value"])) ELSE None

\* callFrame0.To, a pointer: nil when the key is absent
DecodeTo(o) ==
    IF "to" \in DOMAIN o THEN Some(DecodeAddress(o["to"])) ELSE None

\* callFrame0: what json.Unmarshal fills from one JSON object
RECURSIVE DecodeFrame(_)
DecodeFrame(o) ==
    [From |-> IF "from" \in DOMAIN o THEN DecodeAddress(o["from"]) ELSE ZeroAddress,
     To |-> DecodeTo(o),
     Calls |-> IF "calls" \in DOMAIN o
               THEN [i \in 1..Len(o["calls"]) |-> DecodeFrame(o["calls"][i])]
               ELSE <<>>,
     Value |-> DecodeValue(o),
     TypeString |-> IF "type" \in DOMAIN o THEN o["type"] ELSE ""]

\* json.Unmarshal(traceData, &callstacks)
DecodeTrace(bytes) ==
    [i \in 1..Len(bytes.doc) |->
        [j \in 1..Len(bytes.doc[i]) |-> DecodeFrame(bytes.doc[i][j])]]

\* a decoder that reports no error
DecodeNeverFails(bytes) == FALSE

\* whether json.Unmarshal returns an error
DecodeFails(bytes) == bytes.kind = "invalid"


(***************************************************************************)
(* The engine: it calls OnBlockStart, then per transaction OnTxStart, the  *)
(* well-nested OnEnter/OnExit/OnLog of its scopes, OnTxEnd, and at the end *)
(* of the block GetResult.  Stop comes from another goroutine at any time. *)
(* open is the engine's own stack of open scopes, numbered 1, 2, ... in    *)
(* the order the transaction enters them; scope 1 is its top call.         *)
(* entered and nlogs count the scopes and logs of the block.               *)
(***************************************************************************)
\* the calls the engine may make: a value transfer or a static call
CallKinds ==
    {[typ |-> "CALL", value |-> Some(3)], [typ |-> "STATICCALL", value |-> None]}
\* the address scope id runs at; the transaction's sender is at address 1
AddrOf(id) == id + 1
\* the caller of a new scope: the sender, or the scope executing
Caller == IF open = <<>> THEN 1 ELSE AddrOf(Top(open))
TxGasLimits == {21000}
ScopeGas(id) == 100 + id
ExitErrs == {NoErr, ErrReverted}
\* receipt.GasUsed of the transaction the engine is at: the transactions of a
\* block have distinct ones
ReceiptGasUsed == {6 + ntx}

NoResult == [returned |-> FALSE, bytes |-> EmptyBytes, err |-> NoErr]

TracerInit ==
    /\ callstacks = <<>>
    /\ callstack = <<>>
    /\ config \in [OnlyTopCall : BOOLEAN, WithLog : BOOLEAN]
    /\ gasLimit = 0
    /\ depth = 0
    /\ interrupt = FALSE
    /\ reason = NoErr
    /\ panicked = FALSE

ExportIdle ==
    /\ trees = <<>>
    /\ traceData = EmptyBytes
    /\ decoded = <<>>
    /\ attempts = <<>>
    /\ logged = <<>>
    /\ exportState = "idle"
    /\ unmarshalled = FALSE
    /\ visited = 0

\* the variables of the other specifications, at rest
OthersIdle ==
    /\ ncalls = 0
    /\ pcCallback = "idle"
    /\ pcStop = "idle"

Init ==
    /\ TracerInit
    /\ phase = "idle"
    /\ open = <<>>
    /\ nscopes = 0
    /\ entered = 0
    /\ nlogs = 0
    /\ ntx = 0
    /\ last = [op |-> "new"]
    /\ stopped = None
    /\ result = NoResult
    /\ ended = <<>>
    /\ ExportIdle
    /\ OthersIdle

BlockStart ==
    /\ ~panicked
    /\ phase = "idle"
    /\ OnBlockStart
    /\ phase' = "block"
    /\ ntx' = 0
    /\ entered' = 0
    /\ nlogs' = 0
    /\ last' = [op |-> "OnBlockStart"]
    /\ stopped' = None
    /\ result' = NoResult
    /\ ended' = <<>>
    /\ UNCHANGED <<open, nscopes, exportVars, anyVars, raceVars>>

TxStart ==
    /\ ~panicked
    /\ phase = "block"
    /\ ntx < MaxTxs
    /\ \E g \in TxGasLimits : OnTxStart(g)
    /\ phase' = "tx"
    /\ open' = <<>>
    /\ nscopes' = 0
    /\ ntx' = ntx + 1
    /\ last' = [op |-> "OnTxStart"]
    /\ UNCHANGED <<entered, nlogs, stopped, result, ended, exportVars, anyVars, raceVars>>

Enter ==
    /\ ~panicked
    /\ phase = "tx"
    /\ entered < MaxScopes
    /\ IF nscopes = 0 THEN open = <<>> ELSE open # <<>> /\ Len(open) <= MaxDepth
    /\ \E a \in CallKinds :
          OnEnter(Len(open), a.typ, Caller, AddrOf(nscopes + 1), nscopes + 1,
                  ScopeGas(nscopes + 1), a.value)
    /\ open' = Append(open, nscopes + 1)
    /\ nscopes' = nscopes + 1
    /\ entered' = entered + 1
    /\ last' = [op |-> "OnEnter", depth |-> Len(open), scope |-> nscopes + 1,
                pushed |-> Len(callstack') > Len(callstack)]
    /\ UNCHANGED <<phase, nlogs, ntx, stopped, result, ended, exportVars, anyVars, raceVars>>

Exit ==
    /\ ~panicked
    /\ phase = "tx"
    /\ open # <<>>
    /\ \E err \in ExitErrs :
          OnExit(Len(open) - 1, Top(open), Top(open), err, err # NoErr)
    /\ open' = Front(open)
    /\ phase' = IF Len(open) = 1 THEN "txdone" ELSE "tx"
    /\ last' = [op |-> "OnExit", depth |-> Len(open) - 1, scope |-> Top(open)]
    /\ UNCHANGED <<nscopes, entered, nlogs, ntx, stopped, result, ended, exportVars, anyVars, raceVars>>

Log ==
    /\ ~panicked
    /\ phase = "tx"
    /\ open # <<>>
    /\ nlogs < MaxLogs
    /\ OnLog([Address |-> 2, Topics |-> <<>>, Data |-> Top(open)])
    /\ nlogs' = nlogs + 1
    /\ last' = [op |-> "OnLog", depth |-> Len(open) - 1, scope |-> Top(open),
                attached |-> callstack' # callstack]
    /\ UNCHANGED <<phase, open, nscopes, entered, ntx, stopped, result, ended, exportVars, anyVars, raceVars>>

\* the transaction ran: OnTxEnd with its receipt
TxEnd ==
    /\ ~panicked
    /\ phase = "txdone"
    /\ \E g \in ReceiptGasUsed : OnTxEnd(g, NoErr)
    /\ phase' = "block"
    /\ last' = [op |-> "OnTxEnd", err |-> NoErr, before |-> Len(callstacks)]
    /\ ended' = Append(ended, ntx)
    /\ UNCHANGED <<open, nscopes, entered, nlogs, ntx, stopped, result, exportVars, anyVars, raceVars>>

\* the transaction failed validation, before any scope was entered
TxEndInvalid ==
    /\ ~panicked
    /\ phase = "tx"
    /\ nscopes = 0
    /\ OnTxEnd(0, ErrValidation)
    /\ phase' = "block"
    /\ last' = [op |-> "OnTxEnd", err |-> ErrValidation, before |-> Len(callstacks)]
    /\ UNCHANGED <<open, nscopes, entered, nlogs, ntx, stopped, result, ended, exportVars, anyVars, raceVars>>

GetResult ==
    /\ ~panicked
    /\ phase = "block"
    /\ result' = [returned |-> TRUE, bytes |-> EncodeTrace(callstacks), err |-> reason]
    /\ phase' = "idle"
    /\ last' = [op |-> "GetResult"]
    /\ UNCHANGED <<tracerVars, open, nscopes, entered, nlogs, ntx, stopped, ended, exportVars, anyVars, raceVars>>

StopCall ==
    /\ ~panicked
    /\ phase # "idle"
    /\ Stop(ErrTimeout)
    /\ stopped' = Some(ErrTimeout)
    /\ last' = [op |-> "Stop"]
    /\ UNCHANGED <<engineVars, result, ended, exportVars, anyVars, raceVars>>

Next ==
    \/ BlockStart
    \/ TxStart
    \/ Enter
    \/ Exit
    \/ Log
    \/ TxEnd
    \/ TxEndInvalid
    \/ GetResult
    \/ StopCall

Spec == Init /\ [][Next]_vars


(***************************************************************************)
(* blockImportHook and navigateCallFrame (internal/explorer).              *)
(***************************************************************************)
\* the condition of navigateCallFrame's early return, up to frame.To == nil
NotCandidate(frame) ==
    frame.TypeString # "Call" \/ frame.From = ZeroAddress \/ frame.To = None

\* frame.Value.ToInt().Cmp(common.Big0) dereferences a nil *big.Int
ValuePanics(frame) == frame.Value = None

\* the row navigateCallFrame hands to Exec; call_index is read when Exec runs
InternalTx(tx_index, call_index, frame) ==
    [table |-> "internal_transactions", tx_index |-> tx_index, call_index |-> call_index,
     from |-> EncodeAddress(frame.From), to |-> EncodeAddress(frame.To[1]),
     value |-> EncodeBig(frame.Value[1])]

\* one Exec call on the store: the n-th call of the hook fails when n \in fails
Exec(st, row, fails) ==
    LET ok == (Len(st.attempts) + 1) \notin fails
    IN  [st EXCEPT !.attempts = Append(@, [row |-> row, ok |-> ok]),
                   !.err = IF ok THEN NoErr ELSE "exec failed"]

LogError(st, msg) == [st EXCEPT !.logged = Append(@, msg)]

\* st: [attempts, logged, err, call_index, panicked, callstacks, unmarshalled,
\* visited], threaded through the walk; visited counts the calls of
\* navigateCallFrame
RECURSIVE navigateCallFrame(_, _, _, _)
RECURSIVE navigateCalls(_, _, _, _, _)
navigateCallFrame(st, tx_index, frame, fails) ==
    IF st.panicked THEN st
    ELSE IF NotCandidate(frame) THEN [st EXCEPT !.visited = @ + 1]
    ELSE IF ValuePanics(frame) THEN [st EXCEPT !.visited = @ + 1, !.panicked = TRUE]
    ELSE IF frame.Value[1] = 0 THEN [st EXCEPT !.visited = @ + 1]
    ELSE LET s0 == [st EXCEPT !.visited = @ + 1]
             s1 == Exec(s0, InternalTx(tx_index, s0.call_index, frame), fails)
             s2 == [s1 EXCEPT !.call_index = @ + 1]
             s3 == IF s2.err # NoErr
                   THEN LogError(s2, "Failed to insert internal transaction")
                   ELSE s2
         IN  navigateCalls(s3, tx_index, frame.Calls, 1, fails)

navigateCalls(st, tx_index, calls, i, fails) ==
    IF i > Len(calls) THEN st
    ELSE navigateCalls(navigateCallFrame(st, tx_index, calls[i], fails),
                       tx_index, calls, i + 1, fails)

\* the loop over one callstack: call_index := 0 before every top-level frame
RECURSIVE navigateStack(_, _, _, _, _)
navigateStack(st, tx_index, stack, j, fails) ==
    IF j > Len(stack) \/ st.panicked THEN st
    ELSE navigateStack(
            navigateCallFrame([st EXCEPT !.call_index = 0], tx_index, stack[j], fails),
            tx_index, stack, j + 1, fails)

\* the loop over callstacks; tx_index is the 0-based position of the entry
RECURSIVE navigateStacks(_, _, _, _)
navigateStacks(st, stacks, ix, fails) ==
    IF ix > Len(stacks) \/ st.panicked THEN st
    ELSE navigateStacks(navigateStack(st, ix - 1, stacks[ix], 1, fails), stacks, ix + 1, fails)

\* a block row that always carries the trace column
BlockRowAlwaysTrace(withTrace) == [table |-> "block_data", withTrace |-> TRUE]

\* the block_data row handed to Exec, with or without the trace_data column
BlockRow(withTrace) == [table |-> "block_data", withTrace |-> withTrace]

HookStart == [attempts |-> <<>>, logged |-> <<>>, err |-> NoErr, call_index |-> 0,
              panicked |-> FALSE, callstacks |-> <<>>, unmarshalled |-> FALSE,
              visited |-> 0]

\* the final "if err != nil" of the hook
LogLastErr(st) == IF st.err # NoErr THEN LogError(st, "Failed to insert block data") ELSE st

blockImportHook(bytes, marshalOk, fails) ==
    IF ~marshalOk THEN LogError(HookStart, "Failed to marshal block data")
    ELSE IF bytes.kind # "empty"
    THEN LET s1 == Exec(HookStart, BlockRow(TRUE), fails)
             s2 == IF s1.err # NoErr THEN LogError(s1, "Failed to insert block data") ELSE s1
         IN  IF DecodeFails(bytes)
             THEN LogLastErr(LogError([s2 EXCEPT !.err = "invalid character",
                                                 !.unmarshalled = TRUE],
                                      "Failed to unmarshal trace data"))
             ELSE LET cs == DecodeTrace(bytes)
                      s3 == navigateStacks([s2 EXCEPT !.err = NoErr, !.callstacks = cs,
                                                      !.unmarshalled = TRUE],
                                           cs, 1, fails)
                  IN  IF s3.panicked THEN s3 ELSE LogLastErr([s3 EXCEPT !.err = NoErr])
    ELSE LogLastErr(Exec(HookStart, BlockRow(FALSE), fails))


(***************************************************************************)
(* The traces handed to the hook: every list of per-transaction entries,   *)
(* each a non-empty list of call trees, with at most MaxNodes frames in    *)
(* all, built from the frames below.                                       *)
(***************************************************************************)
Captured(typ, from, to, value) ==
    [ZeroFrame EXCEPT !.Type = typ, !.From = from, !.To = to, !.Value = value,
                      !.Input = 1, !.Gas = 21000, !.GasUsed = 7, !.Output = 1]

LeafFrames ==
    {ZeroFrame,
     Captured("CALL", 1, Some(2), Some(3)),
     Captured("STATICCALL", 1, Some(2), None),
     Captured("CALL", 1, Some(ZeroAddress), Some(3)),
     Captured("CALL", 1, Some(2), None),
     Captured("CALL", 1, Some(2), Some(0))}

RECURSIVE TreesOf(_)
RECURSIVE ForestsOf(_)
TreesOf(n) ==
    IF n = 0 THEN {}
    ELSE {[k EXCEPT !.Calls = f] : k \in LeafFrames, f \in ForestsOf(n - 1)}

ForestsOf(m) ==
    IF m = 0 THEN {<<>>}
    ELSE UNION {{<<t>> \o f : t \in TreesOf(k), f \in ForestsOf(m - k)} : k \in 1..m}

RECURSIVE TracesOf(_)
TracesOf(m) ==
    IF m = 0 THEN {<<>>}
    ELSE UNION {{<<e>> \o r : e \in ForestsOf(k), r \in TracesOf(m - k)} : k \in 1..m}

\* the traces of at most max frames
TraceInputs(max) == UNION {TracesOf(n) : n \in 0..max}

\* which Exec calls of one hook run the store rejects
FailChoices == {{}, {1}, {2}}

TracerUnused ==
    /\ callstacks = <<>>
    /\ callstack = <<>>
    /\ config = [OnlyTopCall |-> FALSE, WithLog |-> FALSE]
    /\ gasLimit = 0
    /\ depth = 0
    /\ interrupt = FALSE
    /\ reason = NoErr
    /\ panicked = FALSE
    /\ phase = "idle"
    /\ open = <<>>
    /\ nscopes = 0
    /\ entered = 0
    /\ nlogs = 0
    /\ ntx = 0
    /\ last = [op |-> "new"]
    /\ stopped = None
    /\ result = NoResult
    /\ ended = <<>>
    /\ OthersIdle

InitExport ==
    /\ TracerUnused
    /\ \/ \E T \in TraceInputs(MaxNodes) : trees = T /\ traceData = EncodeTrace(T)
       \/ trees = <<>> /\ traceData \in {EmptyBytes, InvalidBytes}
    /\ decoded = <<>>
    /\ attempts = <<>>
    /\ logged = <<>>
    /\ exportState = "idle"
    /\ unmarshalled = FALSE
    /\ visited = 0

ExportBlock ==
    /\ exportState = "idle"
    /\ \E marshalOk \in BOOLEAN, fails \in FailChoices :
          LET st == blockImportHook(traceData, marshalOk, fails)
          IN  /\ attempts' = st.attempts
              /\ logged' = st.logged
              /\ decoded' = st.callstacks
              /\ unmarshalled' = st.unmarshalled
              /\ visited' = st.visited
              /\ exportState' = IF st.panicked THEN "panicked" ELSE "returned"
    /\ UNCHANGED <<trees, traceData, tracerVars, engineVars, historyVars, anyVars, raceVars>>

NextExport == ExportBlock

SpecExport == InitExport /\ [][NextExport]_vars


(***************************************************************************)
(* Properties of the tracer, checked under Spec.                           *)
(***************************************************************************)
\* the top-level frames the tracer holds: the open stack and every entry
HeldFrames ==
    {callstack[i] : i \in 1..Len(callstack)} \cup
    UNION {{callstacks[i][j] : j \in 1..Len(callstacks[i])} : i \in 1..Len(callstacks)}

\* f and every frame nested under it
RECURSIVE Descendants(_)
Descendants(f) == {f} \cup UNION {Descendants(f.Calls[i]) : i \in 1..Len(f.Calls)}

AllFrames == UNION {Descendants(f) : f \in HeldFrames}

\* C1. Stack discipline: right after OnTxEnd the open-frame stack is empty and
\* the block's tree list has grown by one entry when err is nil and by none
\* when err is not nil.
C1_StackDiscipline ==
    last.op = "OnTxEnd" =>
        /\ callstack = <<>>
        /\ Len(callstacks) = last.before + (IF last.err = NoErr THEN 1 ELSE 0)

\* C2. Single root: while the top call is open and was captured, the bottom of
\* the open-frame stack is the frame OnEnter(depth 0) pushed, and every entry
\* of the block trace holds exactly one top-level frame, that root frame.
C2_SingleRoot ==
    /\ (phase = "tx" /\ open # <<>> /\ Len(callstack) > 1) => callstack[1].Input = 1
    /\ \A i \in 1..Len(callstacks) :
          Len(callstacks[i]) = 1 /\ callstacks[i][1].Input = 1

\* C3. Interruption suppresses new capture: once Stop was called in a block, no
\* later OnEnter of the block pushes a frame and no later OnLog attaches a log.
C3_NoCaptureAfterStop ==
    stopped # None =>
        /\ last.op = "OnEnter" => ~last.pushed
        /\ last.op = "OnLog" => ~last.attached

\* C4. Interruption is reported: GetResult at the end of a block in which
\* Stop(err) was called returns err.
C4_StopReported ==
    (last.op = "GetResult" /\ stopped # None) => result.err = stopped[1]

\* a frame's calls are the scopes it called, each with the output and gas of
\* its own exit, and the top call is nested under nothing
RECURSIVE NestedRight(_)
NestedRight(f) ==
    \A i \in 1..Len(f.Calls) :
        LET c == f.Calls[i]
        IN  /\ c.Input # 1
            /\ f.To # None /\ c.From = f.To[1]
            /\ c.Output = c.Input /\ c.GasUsed = c.Input
            /\ NestedRight(c)

\* C5. Teardown after interruption: after Stop, every frame the tracer holds
\* nested under another one is nested under its true parent with its own
\* output and gasUsed, and the root frame is nested under no frame.
C5_TeardownAfterStop ==
    stopped # None => \A f \in HeldFrames : NestedRight(f)

\* C6. Top-call-only mode: with OnlyTopCall no frame entered at depth > 0 is
\* pushed or nested, and only logs emitted at depth 0 attach, to the root.
C6_TopCallOnly ==
    config.OnlyTopCall =>
        /\ \A f \in AllFrames :
              /\ f.Input \in {0, 1}
              /\ f.Calls = <<>>
              /\ \A k \in 1..Len(f.Logs) : f.Logs[k].Data = 1 /\ f.Input = 1
        /\ (last.op = "OnEnter" /\ last.depth > 0) => ~last.pushed
        /\ (last.op = "OnLog" /\ last.depth > 0) => ~last.attached

\* C6 witness: in top-call-only mode with logs collected and no interruption,
\* the engine is below depth 0, the stack holds no frame above the root, and a
\* log delivered there was attached to no frame.
C6_Witness ==
    /\ config.OnlyTopCall /\ config.WithLog /\ ~interrupt
    /\ last.op = "OnLog" /\ last.depth > 0 /\ ~last.attached
    /\ Len(open) >= 2
    /\ Len(callstack) = 2 /\ callstack[2].Input = 1 /\ callstack[2].Logs = <<>>

(***************************************************************************)
(* Properties of the export, checked under SpecExport.                     *)
(***************************************************************************)
\* an internal transaction: a Call with non-zero from, present non-zero to and
\* present value greater than zero
Qualifies(f) ==
    /\ f.TypeString = "Call"
    /\ f.From # ZeroAddress
    /\ f.To # None /\ f.To[1] # ZeroAddress
    /\ f.Value # None /\ f.Value[1] > 0

\* the frames of a tree, and of the trees of one entry, in pre-order
RECURSIVE Preorder(_)
RECURSIVE PreorderAll(_, _)
Preorder(f) == <<f>> \o PreorderAll(f.Calls, 1)
PreorderAll(fs, i) ==
    IF i > Len(fs) THEN <<>> ELSE Preorder(fs[i]) \o PreorderAll(fs, i + 1)

QualifyingOf(entry) == SelectSeq(PreorderAll(entry, 1), Qualifies)

\* the hook ran past the marshalling of the block, walked the trace and returned
Extracted == exportState = "returned" /\ attempts # <<>>

IsInternal(a) == a.row.table = "internal_transactions"
InternalRows == SelectSeq(attempts, IsInternal)
RowsOfTx(ix) ==
    LET OfTx(a) == a.row.tx_index = ix IN SelectSeq(InternalRows, OfTx)

\* what a record says of its frame
RowOf(f) == [from |-> EncodeAddress(f.From), to |-> EncodeAddress(f.To[1]),
             value |-> EncodeBig(f.Value[1])]
Said(a) == [from |-> a.row.from, to |-> a.row.to, value |-> a.row.value]

\* C7. Qualification filter, exclusion: a frame that does not qualify never
\* produces a record, and the hook returns normally when it meets one.
C7_ExcludesNonQualifying ==
    /\ exportState # "panicked"
    /\ \A k \in 1..Len(InternalRows) :
          \E f \in {QualifyingOf(decoded[InternalRows[k].row.tx_index + 1])[n] :
                      n \in 1..Len(QualifyingOf(decoded[InternalRows[k].row.tx_index + 1]))} :
              Said(InternalRows[k]) = RowOf(f)

\* C8. Qualification filter, inclusion: every qualifying frame of a decoded
\* tree produces exactly one record, whatever its depth and its ancestors:
\* the records of a transaction that name a non-zero to are, in order, those
\* of its qualifying frames in pre-order.
C8_IncludesQualifying ==
    Extracted =>
        \A ix \in 1..Len(decoded) :
            LET NamesTo(a) == DecodeAddress(a.row.to) # ZeroAddress
                rows == SelectSeq(RowsOfTx(ix - 1), NamesTo)
                want == QualifyingOf(decoded[ix])
            IN  /\ Len(rows) = Len(want)
                /\ \A n \in 1..Len(rows) : Said(rows[n]) = RowOf(want[n])

\* C9. Index density: the records of a transaction with k qualifying frames
\* carry the call indexes 0, 1, ..., k-1 in this order, whether or not an
\* insert failed.
C9_IndexDensity ==
    Extracted =>
        \A ix \in 1..Len(decoded) :
            LET rows == RowsOfTx(ix - 1)
            IN  /\ Len(rows) = Len(QualifyingOf(decoded[ix]))
                /\ \A n \in 1..Len(rows) : rows[n].row.call_index = n - 1

\* the hook decoded the trace (it may have panicked walking it)
DecodedTrace == exportState # "idle" /\ attempts # <<>> /\ traceData.kind = "json"

\* a decoded frame as a callFrame: the fields callFrame0 does not hold are zero
OpCodeOf(name) ==
    CASE name = "Call" -> "CALL"
      [] name = "StaticCall" -> "STATICCALL"
      [] name = "DelegateCall" -> "DELEGATECALL"
      [] name = "Create" -> "CREATE"
      [] OTHER -> "STOP"

RECURSIVE Restored(_)
Restored(d) ==
    [ZeroFrame EXCEPT !.Type = OpCodeOf(d.TypeString), !.From = d.From, !.To = d.To,
                      !.Value = d.Value,
                      !.Calls = [i \in 1..Len(d.Calls) |-> Restored(d.Calls[i])]]

RECURSIVE Kept(_)
Kept(f) ==
    [From |-> f.From, To |-> f.To,
     Calls |-> [i \in 1..Len(f.Calls) |-> Kept(f.Calls[i])],
     Value |-> f.Value, TypeString |-> TypeString(f.Type)]

MaxCalls == 4
\* the depths a callback is made with
AnyDepths == {0, 1}

InitAny ==
    /\ TracerInit
    /\ phase = "any"
    /\ open = <<>>
    /\ nscopes = 0
    /\ entered = 0
    /\ nlogs = 0
    /\ ntx = 0
    /\ last = [op |-> "new"]
    /\ stopped = None
    /\ result = NoResult
    /\ ended = <<>>
    /\ ExportIdle
    /\ OthersIdle

\* what every callback of SpecAny has in common
AnyCall(op) ==
    /\ ~panicked
    /\ ncalls < MaxCalls
    /\ ncalls' = ncalls + 1
    /\ last' = [op |-> op]
    /\ UNCHANGED <<engineVars, ended, exportVars, raceVars>>

AnyBlockStart == AnyCall("OnBlockStart") /\ OnBlockStart /\ UNCHANGED <<stopped, result>>

AnyTxStart ==
    /\ AnyCall("OnTxStart")
    /\ \E g \in TxGasLimits : OnTxStart(g)
    /\ UNCHANGED <<stopped, result>>

AnyEnter ==
    /\ AnyCall("OnEnter")
    /\ \E d \in AnyDepths :
          OnEnter(d, "CALL", 1, 2, ncalls + 1, ScopeGas(ncalls + 1), Some(3))
    /\ UNCHANGED <<stopped, result>>

AnyExit ==
    /\ AnyCall("OnExit")
    /\ \E d \in AnyDepths : OnExit(d, ncalls + 1, ncalls + 1, NoErr, FALSE)
    /\ UNCHANGED <<stopped, result>>

AnyLog ==
    /\ AnyCall("OnLog")
    /\ OnLog([Address |-> 2, Topics |-> <<>>, Data |-> ncalls + 1])
    /\ UNCHANGED <<stopped, result>>

AnyTxEnd ==
    /\ AnyCall("OnTxEnd")
    /\ \E err \in {NoErr, ErrValidation} : OnTxEnd(7, err)
    /\ UNCHANGED <<stopped, result>>

AnyGetResult ==
    /\ AnyCall("GetResult")
    /\ result' = [returned |-> TRUE, bytes |-> EncodeTrace(callstacks), err |-> reason]
    /\ UNCHANGED <<tracerVars, stopped>>

AnyStop ==
    /\ AnyCall("Stop")
    /\ Stop(ErrTimeout)
    /\ stopped' = Some(ErrTimeout)
    /\ UNCHANGED result

NextAny ==
    \/ AnyBlockStart
    \/ AnyTxStart
    \/ AnyEnter
    \/ AnyExit
    \/ AnyLog
    \/ AnyTxEnd
    \/ AnyGetResult
    \/ AnyStop

SpecAny == InitAny /\ [][NextAny]_vars

\* C11. Malformed callback ordering is absorbed: whatever the order of the
\* callbacks and the configuration, no callback crashes.
C11_NoCrash == ~panicked


(***************************************************************************)
(* Properties of the tracer under Spec, continued.                         *)
(***************************************************************************)
\* C12. Block trace content: at every point of a block the tree list holds one
\* entry per transaction of the block whose OnTxEnd carried no error, in
\* transaction order (entry i carries the receipt of the i-th such
\* transaction); it is empty right after OnBlockStart, unchanged by an OnTxEnd
\* with an error, and GetResult returns exactly these entries.
C12_BlockTrace ==
    /\ Len(callstacks) = Len(ended)
    /\ \A i \in 1..Len(callstacks) : callstacks[i][1].GasUsed = 6 + ended[i]
    /\ last.op = "OnBlockStart" => callstacks = <<>>
    /\ (last.op = "OnTxEnd" /\ last.err # NoErr) => Len(callstacks) = last.before
    /\ last.op = "GetResult" =>
          /\ result.bytes = EncodeTrace(callstacks)
          /\ Len(result.bytes.doc) = Len(ended)

\* C12 witness: GetResult at the end of a block whose first transaction failed
\* validation and whose second ran: one entry, that of the second.
C12_Witness ==
    /\ last.op = "GetResult"
    /\ ended = <<2>>
    /\ Len(callstacks) = 1 /\ callstacks[1][1].GasUsed = 8


(***************************************************************************)
(* Properties of the export under SpecExport, continued.                   *)
(***************************************************************************)
\* the hook ran and the marshalling of the block succeeded
Marshalled ==
    /\ exportState # "idle"
    /\ \A k \in 1..Len(logged) : logged[k] # "Failed to marshal block data"

\* C13. Empty trace export: with empty trace bytes and the block marshalled,
\* the hook makes exactly one insert, that of the block row without the trace
\* column, calls neither the decoder nor the extraction, attempts no
\* internal-transaction row, and returns.
C13_EmptyTrace ==
    (Marshalled /\ traceData.kind = "empty") =>
        /\ exportState = "returned"
        /\ Len(attempts) = 1
        /\ attempts[1].row = [table |-> "block_data", withTrace |-> FALSE]
        /\ ~unmarshalled
        /\ visited = 0
        /\ InternalRows = <<>>

\* C13 witness: the hook returned from a call with empty trace bytes whose
\* block row the store accepted.
C13_Witness ==
    /\ Marshalled /\ traceData.kind = "empty"
    /\ exportState = "returned"
    /\ Len(attempts) = 1 /\ attempts[1].ok
    /\ logged = <<>>

\* C14. Invalid trace export: with non-empty trace bytes that fail to decode,
\* the block row with the trace column is inserted exactly once, the decode
\* error is logged, the extraction is not entered, no internal-transaction
\* row is attempted, and the hook returns.
C14_InvalidTrace ==
    (Marshalled /\ traceData.kind = "invalid") =>
        /\ exportState = "returned"
        /\ Len(attempts) = 1
        /\ attempts[1].row = [table |-> "block_data", withTrace |-> TRUE]
        /\ unmarshalled
        /\ \E k \in 1..Len(logged) : logged[k] = "Failed to unmarshal trace data"
        /\ visited = 0
        /\ InternalRows = <<>>

\* C14 witness: the hook returned from a call with undecodable trace bytes
\* whose block row the store accepted; the decode error was logged (and, the
\* error variable still holding it, the final check logged once more).
C14_Witness ==
    /\ Marshalled /\ traceData.kind = "invalid"
    /\ exportState = "returned"
    /\ Len(attempts) = 1 /\ attempts[1].ok
    /\ logged = <<"Failed to unmarshal trace data", "Failed to insert block data">>


\* the hook attempted, for every entry of the decoded trace, the insert of each
\* of its qualifying frames
AllQualifyingAttempted ==
    \A ix \in 1..Len(decoded) :
        LET NamesTo(a) == DecodeAddress(a.row.to) # ZeroAddress
        IN  Len(SelectSeq(RowsOfTx(ix - 1), NamesTo)) = Len(QualifyingOf(decoded[ix]))

\* C18. Best-effort export: whichever insert the store rejects, the hook
\* returns normally; the block row is the first insert and the only one of its
\* table; with non-empty trace bytes the decoder runs even when the block row
\* was rejected, and with a decoded trace the insert of every qualifying frame
\* is attempted even when an earlier one was rejected.
C18_BestEffort ==
    Marshalled =>
        /\ exportState = "returned"
        /\ attempts # <<>> /\ attempts[1].row.table = "block_data"
        /\ \A k \in 2..Len(attempts) : IsInternal(attempts[k])
        /\ traceData.kind # "empty" => unmarshalled
        /\ traceData.kind = "json" => AllQualifyingAttempted

\* C19. Primary-key uniqueness: no two internal-transaction records emitted by
\* one run of the hook carry the same transaction index and the same call
\* index.
C19_UniqueKeys ==
    DecodedTrace =>
        \A k, n \in 1..Len(InternalRows) :
            (k # n /\ InternalRows[k].row.tx_index = InternalRows[n].row.tx_index)
                => InternalRows[k].row.call_index # InternalRows[n].row.call_index


(***************************************************************************)
(* Properties of the tracer under Spec: finalization, nesting, logs.       *)
(***************************************************************************)
\* C15. Root finalization targets the root: once the top call has exited, the
\* frame OnEnter(depth 0) pushed carries the output of that exit, and in every
\* entry of the block trace it also carries the gasUsed of the transaction's
\* receipt, whether or not the transaction made sub-calls.
C15_RootFinalized ==
    /\ phase = "txdone" =>
          \A k \in 1..Len(callstack) : callstack[k].Input = 1 => callstack[k].Output = 1
    /\ \A i \in 1..Len(callstacks) : \A k \in 1..Len(callstacks[i]) :
          LET f == callstacks[i][k]
          IN  f.Input = 1 => f.Output = 1 /\ f.GasUsed = 6 + ended[i]


\* the calls of a frame, and of every frame below it, are in the order their
\* scopes were entered
RECURSIVE SiblingsInOrder(_)
SiblingsInOrder(f) ==
    /\ \A i \in 1..Len(f.Calls) - 1 : f.Calls[i].Input < f.Calls[i + 1].Input
    /\ \A i \in 1..Len(f.Calls) : SiblingsInOrder(f.Calls[i])

\* the scopes the frames of a stack or entry were entered for, in pre-order
ScopesOf(stack) ==
    LET fs == PreorderAll(stack, 1) IN [k \in 1..Len(fs) |-> fs[k].Input]

\* a sequence that holds every number of 0..n exactly once
EachOnce(seq, n) ==
    /\ Len(seq) = n + 1
    /\ {seq[k] : k \in 1..Len(seq)} = 0..n

\* C16. Tree shape mirrors call nesting: with no Stop in the block and
\* OnlyTopCall unset, every scope the transaction entered is held exactly once,
\* the open ones on the stack in nesting order and every exited one in the
\* calls of the frame of its caller, siblings in entry order, each with the
\* output and gasUsed of its own exit; every finished entry has this shape.
C16_TreeShape ==
    (stopped = None /\ ~config.OnlyTopCall) =>
        /\ \A f \in HeldFrames : NestedRight(f) /\ SiblingsInOrder(f)
        /\ phase \in {"tx", "txdone"} =>
              /\ EachOnce(ScopesOf(callstack), nscopes)
              /\ \A k \in 1..Len(open) : callstack[k + 1].Input = open[k]
        /\ \A i \in 1..Len(callstacks) :
              EachOnce(ScopesOf(callstacks[i]), Len(ScopesOf(callstacks[i])) - 1)

\* C16 witness: a finished entry, no Stop in the block, whose root holds two
\* calls, the scopes 2 and 3 in this order, each with its own exit.
C16_Witness ==
    /\ stopped = None /\ ~config.OnlyTopCall
    /\ last.op = "OnTxEnd"
    /\ \E i \in 1..Len(callstacks) :
          /\ Len(callstacks[i]) = 2
          /\ Len(callstacks[i][2].Calls) = 2
          /\ callstacks[i][2].Calls[1].Input = 2 /\ callstacks[i][2].Calls[1].GasUsed = 2
          /\ callstacks[i][2].Calls[2].Input = 3 /\ callstacks[i][2].Calls[2].Output = 3

RaceBlockStartTrees ==
    /\ ~panicked
    /\ pcCallback = "idle"
    /\ phase = "idle"
    /\ callstacks' = <<>>
    /\ pcCallback' = "OnBlockStart.interrupt"
    /\ UNCHANGED <<callstack, config, gasLimit, depth, interrupt, reason, panicked,
                   engineVars, historyVars, exportVars, anyVars, pcStop>>

\* OnBlockStart: t.interrupt = atomic.Bool{}
RaceBlockStartFlag ==
    /\ pcCallback = "OnBlockStart.interrupt"
    /\ interrupt' = FALSE
    /\ pcCallback' = "OnBlockStart.reason"
    /\ UNCHANGED <<callstacks, callstack, config, gasLimit, depth, reason, panicked,
                   engineVars, historyVars, exportVars, anyVars, pcStop>>

\* OnBlockStart: t.reason = nil, and the callback returns
RaceBlockStartReason ==
    /\ pcCallback = "OnBlockStart.reason"
    /\ reason' = NoErr
    /\ pcCallback' = "idle"
    /\ phase' = "block"
    /\ ntx' = 0
    /\ entered' = 0
    /\ nlogs' = 0
    /\ last' = [op |-> "OnBlockStart"]
    /\ result' = NoResult
    /\ ended' = <<>>
    /\ UNCHANGED <<callstacks, callstack, config, gasLimit, depth, interrupt, panicked,
                   open, nscopes, stopped, exportVars, anyVars, pcStop>>

\* OnTxStart: t.callstack = make([]callFrame, 1); t.gasLimit = tx.Gas(); t.depth = 0
RaceTxStartStack ==
    /\ ~panicked
    /\ pcCallback = "idle"
    /\ phase = "block"
    /\ ntx < MaxTxs
    /\ callstack' = FreshStack
    /\ \E g \in TxGasLimits : gasLimit' = g
    /\ depth' = 0
    /\ pcCallback' = "OnTxStart.interrupt"
    /\ UNCHANGED <<callstacks, config, interrupt, reason, panicked,
                   engineVars, historyVars, exportVars, anyVars, pcStop>>

\* OnTxStart: t.interrupt = atomic.Bool{}
RaceTxStartFlag ==
    /\ pcCallback = "OnTxStart.interrupt"
    /\ interrupt' = FALSE
    /\ pcCallback' = "OnTxStart.reason"
    /\ UNCHANGED <<callstacks, callstack, config, gasLimit, depth, reason, panicked,
                   engineVars, historyVars, exportVars, anyVars, pcStop>>

\* OnTxStart: t.reason = nil, and the callback returns
RaceTxStartReason ==
    /\ pcCallback = "OnTxStart.reason"
    /\ reason' = NoErr
    /\ pcCallback' = "idle"
    /\ phase' = "tx"
    /\ open' = <<>>
    /\ nscopes' = 0
    /\ ntx' = ntx + 1
    /\ last' = [op |-> "OnTxStart"]
    /\ UNCHANGED <<callstacks, callstack, config, gasLimit, depth, interrupt, panicked,
                   entered, nlogs, stopped, result, ended, exportVars, anyVars, pcStop>>

\* the callbacks that are one step each, between two callbacks of the driver
RaceEnter == pcCallback = "idle" /\ Enter
RaceExit == pcCallback = "idle" /\ Exit
RaceLog == pcCallback = "idle" /\ Log
RaceTxEnd == pcCallback = "idle" /\ TxEnd
RaceTxEndInvalid == pcCallback = "idle" /\ TxEndInvalid
RaceGetResult == pcCallback = "idle" /\ GetResult

\* Stop: t.reason = err
RaceStopReason ==
    /\ ~panicked
    /\ pcStop = "idle"
    /\ reason' = ErrTimeout
    /\ pcStop' = "Stop.interrupt"
    /\ UNCHANGED <<callstacks, callstack, config, gasLimit, depth, interrupt, panicked,
                   engineVars, historyVars, exportVars, anyVars, pcCallback>>

\* Stop: t.interrupt.Store(true), and Stop returns
RaceStopFlag ==
    /\ pcStop = "Stop.interrupt"
    /\ interrupt' = TRUE
    /\ pcStop' = "idle"
    /\ stopped' = Some(ErrTimeout)
    /\ UNCHANGED <<callstacks, callstack, config, gasLimit, depth, reason, panicked,
                   engineVars, last, result, ended, exportVars, anyVars, pcCallback>>

NextRace ==
    \/ RaceBlockStartTrees
    \/ RaceBlockStartFlag
    \/ RaceBlockStartReason
    \/ RaceTxStartStack
    \/ RaceTxStartFlag
    \/ RaceTxStartReason
    \/ RaceEnter
    \/ RaceExit
    \/ RaceLog
    \/ RaceTxEnd
    \/ RaceTxEndInvalid
    \/ RaceGetResult
    \/ RaceStopReason
    \/ RaceStopFlag

SpecRace == Init /\ [][NextRace]_vars

\* C20. Concurrent stop keeps flag and reason consistent: in no state after a
\* Stop(err) with a non-nil err has returned is the interruption flag set
\* while the stored reason is nil.
C20_FlagHasReason ==
    (stopped # None /\ interrupt) => reason # NoErr


====
